---- MODULE Spec2Model ----
(***************************************************************************)
(* Scan-and-merge pipeline of the private media library (OpenList refresh  *)
(* route) together with the detail route that reads the same metadata      *)
(* cache and store.                                                        *)
(*                                                                         *)
(* JavaScript objects are modelled by a heap of cells addressed by         *)
(* references: the metadata cache, the running scan and the detail request *)
(* hold references, so a document mutated in place by the scan is seen by  *)
(* every holder of the same reference.  Handlers run to their next await;  *)
(* every action below is one such run.                                     *)
(*                                                                         *)
(* Environment assumptions: one root; scans of the root do not overlap     *)
(* (spec section 5, "single-scan-per-root is assumed"); folder names do    *)
(* not collide with members of Object.prototype; catalog records carry     *)
(* every field of the gateway contract (spec section 6); a stored value is *)
(* absent, unparseable, or the text of a document object whose folders is  *)
(* a mapping, missing, or a non-object.                                    *)
(***************************************************************************)
EXTENDS Integers, Sequences, FiniteSets, TLC

VARIABLES now, store, config, cache, heap, tasks, scan, det, resp, hist

vars == <<now, store, config, cache, heap, tasks, scan, det, resp, hist>>

-----------------------------------------------------------------------------
(* Bounds of the model *)

MaxClock == 1
MaxScans == 2
MaxReads == 1
MaxList == 2
MaxFaults == 1

-----------------------------------------------------------------------------
(* Values *)

Null == "null"
Undefined == "undefined"
NoRef == 0
ObjIds == 1..3
NoTask == 0

FolderNames == {"Inception (2010)", "Unknown Junk Folder"}
FileNames == {"readme.txt"}
DetailIds == {"Inception (2010)"}

Item(n, d) == [name |-> n, is_dir |-> d]

Items == {Item(n, TRUE) : n \in FolderNames} \cup {Item(n, FALSE) : n \in FileNames}

\* Remote directory listings: entries with pairwise distinct names.
Listings ==
  UNION {{l \in [1..k -> Items] : \A a, b \in 1..k : l[a].name = l[b].name => a = b}
          : k \in 0..MaxList}

\* a || b on strings: undefined, null and "" are falsy.
OrElse(a, b) == IF a \in {Undefined, Null, ""} THEN b ELSE a

Min(S) == CHOOSE x \in S : \A y \in S : x <= y

-----------------------------------------------------------------------------
(* Catalog Lookup Gateway: the record the catalog holds for a query, and   *)
(* the outcomes one searchTMDB call can have.                              *)

CatalogRecord(q) ==
  LET movie == q = "Inception (2010)"
  IN [id |-> IF movie THEN 27205 ELSE 1399,
      title |-> IF movie THEN "Inception" ELSE Undefined,
      name |-> IF movie THEN Undefined ELSE "Junk: The Series",
      poster_path |-> IF movie THEN "/inception.jpg" ELSE Null,
      release_date |-> IF movie THEN "2010-07-16" ELSE Undefined,
      first_air_date |-> IF movie THEN Undefined ELSE "2011-04-17",
      overview |-> IF movie THEN "dream heist" ELSE "a show",
      vote_average |-> IF movie THEN 8 ELSE 7,
      media_type |-> IF movie THEN "movie" ELSE "tv"]

SearchOutcomes(q) ==
  { [throws |-> FALSE, code |-> 200, result |-> <<CatalogRecord(q)>>],
    [throws |-> FALSE, code |-> 200, result |-> <<>>],
    [throws |-> FALSE, code |-> 500, result |-> <<>>],
    [throws |-> TRUE, code |-> 0, result |-> <<>>] }

-----------------------------------------------------------------------------
(* Folder entries and documents *)

ResolvedEntry(result, folderName, t) ==
  [tmdb_id |-> result.id,
   title |-> OrElse(OrElse(result.title, result.name), folderName),
   poster_path |-> result.poster_path,
   release_date |-> OrElse(OrElse(result.release_date, result.first_air_date), ""),
   overview |-> result.overview,
   vote_average |-> result.vote_average,
   media_type |-> result.media_type,
   last_updated |-> t,
   failed |-> FALSE]

SentinelEntry(folderName, t) ==
  [tmdb_id |-> 0, title |-> folderName, poster_path |-> Null, release_date |-> "",
   overview |-> "", vote_average |-> 0, media_type |-> "movie",
   last_updated |-> t, failed |-> TRUE]

\* The folders field of a document object: a mapping (kind "map"), absent
\* (undefined or null, kind "missing") or a truthy non-object (kind "nonobj").
FoldersMap(m) == [kind |-> "map", map |-> m]
FoldersMissing == [kind |-> "missing", map |-> <<>>]
FoldersNonObj == [kind |-> "nonobj", map |-> <<>>]

EmptyMap == [n \in {} |-> SentinelEntry("", 0)]

\* Heap cells.
Free == [tag |-> "free"]
Doc(f, t) == [tag |-> "doc", folders |-> f, last_refresh |-> t]

\* folders[name] = entry on a mapping.
PutEntry(m, name, e) == [n \in (DOMAIN m) \cup {name} |-> IF n = name THEN e ELSE m[n]]

-----------------------------------------------------------------------------
(* JSON.stringify / JSON.parse of a document.  The text lists the members  *)
(* of folders as name/value pairs; a property whose value is undefined is  *)
(* not written.                                                            *)

Absent == [tag |-> "absent"]
Garbage == [tag |-> "garbage"]

EntryText(e) ==
  <<e.tmdb_id, e.title, e.poster_path, e.release_date, e.overview,
    e.vote_average, e.media_type, e.last_updated, e.failed>>

EntryOfText(x) ==
  [tmdb_id |-> x[1], title |-> x[2], poster_path |-> x[3], release_date |-> x[4],
   overview |-> x[5], vote_average |-> x[6], media_type |-> x[7],
   last_updated |-> x[8], failed |-> x[9]]

JSONstringify(d) ==
  [tag |-> "doctext",
   fkind |-> IF d.folders.kind = "missing" THEN "omitted" ELSE d.folders.kind,
   members |-> {<<n, EntryText(d.folders.map[n])>> : n \in DOMAIN d.folders.map},
   last_refresh |-> d.last_refresh]

JSONparse(x) ==
  Doc([kind |-> IF x.fkind = "omitted" THEN "missing" ELSE x.fkind,
       map |-> [n \in {p[1] : p \in x.members} |->
                  EntryOfText((CHOOSE p \in x.members : p[1] = n)[2])]],
      x.last_refresh)

-----------------------------------------------------------------------------
(* Object heap *)

Alloc(h) == Min({o \in ObjIds : h[o] = Free})

\* Cells no reference reaches are released.
Collect(h, refs) == [o \in ObjIds |-> IF o \in refs THEN h[o] ELSE Free]

-----------------------------------------------------------------------------
(* Scan Task Registry (lib/scan-task): one record per task id. *)

Retention == 0

NoTaskRec == [status |-> "absent"]

Terminal(rec) == rec.status \in {"completed", "failed"}
Live(rec) == rec.status \in {"pending", "running"}

createScanTask(ts, id, t) ==
  [ts EXCEPT ![id] = [status |-> "pending", processed |-> 0, total |-> 0,
                      currentItem |-> Null, result |-> <<>>, error |-> "",
                      startedAt |-> t, finishedAt |-> -1]]

updateScanTaskProgress(ts, id, processed, total, item) ==
  IF Live(ts[id])
  THEN [ts EXCEPT ![id].status = "running", ![id].processed = processed,
                  ![id].total = total, ![id].currentItem = item]
  ELSE ts

completeScanTask(ts, id, result, t) ==
  IF Live(ts[id])
  THEN [ts EXCEPT ![id].status = "completed", ![id].result = <<result>>,
                  ![id].finishedAt = t]
  ELSE ts

failScanTaskNoGuard(ts, id, message, t) ==
  IF ts[id].status # "absent"
  THEN [ts EXCEPT ![id].status = "failed", ![id].error = message,
                  ![id].finishedAt = t]
  ELSE ts

failScanTask(ts, id, message, t) ==
  IF Live(ts[id])
  THEN [ts EXCEPT ![id].status = "failed", ![id].error = message,
                  ![id].finishedAt = t]
  ELSE ts

cleanupOldTasks(ts, t) ==
  [id \in DOMAIN ts |->
     IF Terminal(ts[id]) /\ ts[id].finishedAt < t - Retention THEN NoTaskRec ELSE ts[id]]

\* Line 187: the processed value reported for the folder at 0-based index i.
ProcessedAtIndex(i) == i

ProcessedAt(i) == i + 1

\* updateProgress for the folders at positions a..b of L (1-based), in order.
RECURSIVE ProgressThrough(_, _, _, _, _)
ProgressThrough(ts, id, a, b, L) ==
  IF a > b THEN ts
  ELSE ProgressThrough(updateScanTaskProgress(ts, id, ProcessedAt(a - 1), Len(L), L[a]),
                       id, a + 1, b, L)

-----------------------------------------------------------------------------
(* Metadata Cache (lib/openlist-cache): an in-memory map from root to the  *)
(* cached document object; one root, so one slot holding a reference.      *)

getCachedMetaInfo(c) == c
setCachedMetaInfo(c, ref) == ref
invalidateMetaInfoCache(c) == NoRef

-----------------------------------------------------------------------------
(* State *)

IdleScan ==
  [pc |-> "idle", taskId |-> NoTask, metaInfo |-> NoRef, folders |-> <<>>, i |-> 0,
   newCount |-> 0, errorCount |-> 0, content |-> Absent, error |-> "",
   cfg |-> [LastRefreshTime |-> 0, ResourceCount |-> 0]]

NoResponse == [status |-> 0]

IdleDet ==
  [pc |-> "idle", id |-> "", metaInfo |-> NoRef, json |-> Absent, threw |-> FALSE,
   reads |-> 0, response |-> NoResponse, obsScan |-> 0, obsFolders |-> FoldersMissing]

NoHist ==
  [scanNo |-> 0, faults |-> 0, lookups |-> <<>>, progress |-> <<>>, delays |-> 0, failedAt |-> "",
   listing |-> <<>>, listed |-> FALSE, hit |-> FALSE,
   preFolders |-> FoldersMissing, startFolders |-> EmptyMap, postFolders |-> EmptyMap,
   merged |-> FALSE, preStore |-> Absent, preCache |-> Free,
   preConfig |-> [LastRefreshTime |-> 0, ResourceCount |-> 0],
   prevCompleted |-> FALSE, prevListing |-> <<>>, prevFolders |-> EmptyMap,
   caughtAt |-> -1, detSetCache |-> FALSE]

\* Values the store may hold when the process starts.
InitStores ==
  { Absent, Garbage,
    [tag |-> "doctext", fkind |-> "omitted", members |-> {}, last_refresh |-> 0],
    [tag |-> "doctext", fkind |-> "nonobj", members |-> {}, last_refresh |-> 0],
    JSONstringify(Doc(FoldersMap(PutEntry(EmptyMap, "Inception (2010)",
        ResolvedEntry(CatalogRecord("Inception (2010)"), "Inception (2010)", 0))), 0)) }

Init ==
  /\ now = 0
  /\ store \in InitStores
  /\ config = [LastRefreshTime |-> 0, ResourceCount |-> 0]
  /\ cache = NoRef
  /\ heap = [o \in ObjIds |-> Free]
  /\ tasks = [id \in 1..MaxScans |-> NoTaskRec]
  /\ scan = IdleScan
  /\ det = IdleDet
  /\ resp = [status |-> 0, taskId |-> NoTask]
  /\ hist = NoHist

CacheDoc == IF cache = NoRef THEN Free ELSE heap[cache]

Refs(c, s, d) == {c, s.metaInfo, d.metaInfo} \ {NoRef}

-----------------------------------------------------------------------------
(* Failures of external calls: a behaviour holds at most MaxFaults of them. *)

MayFail(f) == f => hist.faults < MaxFaults

Counted(hi, f) == IF f THEN [hi EXCEPT !.faults = @ + 1] ELSE hi

-----------------------------------------------------------------------------
(* performScan: the pieces of synchronous code between two awaits *)

\* Lines 322-326: the catch of performScan fails the task and re-throws.
ScanFailedSwallowed(ts, s, hi, message, at) ==
  [ts |-> ts, s |-> IdleScan, hi |-> [hi EXCEPT !.failedAt = at]]

ScanFailed(ts, s, hi, message, at) ==
  [ts |-> failScanTask(ts, s.taskId, message, now),
   s  |-> [IdleScan EXCEPT !.pc = "rejected", !.taskId = s.taskId, !.error = message],
   hi |-> [hi EXCEPT !.failedAt = at]]

\* Lines 149-153 on the document object at ref: an invalid folders field is
\* replaced by an empty mapping, in place.
EnsureFoldersKeep(h, ref) == h

EnsureFolders(h, ref) ==
  IF h[ref].folders.kind # "map"
  THEN [h EXCEPT ![ref].folders = FoldersMap(EmptyMap)]
  ELSE h

\* Line 190: metaInfo.folders[folder.name] is truthy.
HasEntryNever(F, name) == FALSE

HasEntry(F, name) == name \in DOMAIN F

\* Lines 182-193 and 268-277: from folder k on, report progress and skip the
\* folders that have an entry, up to the first folder to look up (the call to
\* searchTMDB is then in flight); past the last folder, stamp last_refresh,
\* serialize the document and issue the store write.
Advance(ts, h, s, hi, k) ==
  LET L == s.folders
      n == Len(L)
      F == h[s.metaInfo].folders.map
      miss == {j \in k..n : ~HasEntry(F, L[j])}
      calls(a, b) == [x \in 1..(b - a + 1) |-> <<ProcessedAt(a + x - 2), n>>]
  IN IF miss = {}
     THEN LET h2 == [h EXCEPT ![s.metaInfo].last_refresh = now]
          IN [ts |-> ProgressThrough(ts, s.taskId, k, n, L),
              h  |-> h2,
              s  |-> [s EXCEPT !.pc = "save", !.i = n + 1,
                               !.content = JSONstringify(h2[s.metaInfo])],
              hi |-> [hi EXCEPT !.progress = @ \o calls(k, n), !.merged = TRUE,
                                !.postFolders = F]]
     ELSE LET j == Min(miss)
          IN [ts |-> ProgressThrough(ts, s.taskId, k, j, L),
              h  |-> h,
              s  |-> [s EXCEPT !.pc = "search", !.i = j],
              hi |-> [hi EXCEPT !.progress = @ \o calls(k, j)]]

\* Lines 161-162: the document is resolved; the listing call is issued.
StartListing(s, hi, h, ref) ==
  [s  |-> [s EXCEPT !.pc = "list", !.metaInfo = ref],
   hi |-> [hi EXCEPT !.startFolders = h[ref].folders.map]]

-----------------------------------------------------------------------------
(* Trigger: POST /api/openlist/refresh, up to the first await of the scan  *)
(* it starts.                                                              *)

\* Line 34: no authenticated identity.
Unauthorized(auth) == ~auth

\* Lines 42 and 52: the listing configuration or the catalog API key is absent.
NotConfiguredOpenListOnly(cfg) == cfg = "noOpenList"

NotConfigured(cfg) == cfg \in {"noOpenList", "noKey"}

POST(auth, cfg) ==
  /\ scan.pc = "idle"
  /\ hist.scanNo < MaxScans
  /\ IF Unauthorized(auth) THEN
       /\ resp' = [status |-> 401, taskId |-> NoTask]
       /\ UNCHANGED <<now, store, config, cache, heap, tasks, scan, det, hist>>
     ELSE IF cfg = "throws" THEN
       /\ resp' = [status |-> 500, taskId |-> NoTask]
       /\ UNCHANGED <<now, store, config, cache, heap, tasks, scan, det, hist>>
     ELSE IF NotConfigured(cfg) THEN
       /\ resp' = [status |-> 400, taskId |-> NoTask]
       /\ UNCHANGED <<now, store, config, cache, heap, tasks, scan, det, hist>>
     ELSE
       LET id  == hist.scanNo + 1
           ts1 == createScanTask(cleanupOldTasks(tasks, now), id, now)
           ts2 == updateScanTaskProgress(ts1, id, 0, 0, Null)
           s0  == [IdleScan EXCEPT !.taskId = id]
           hi0 == [NoHist EXCEPT !.scanNo = id, !.faults = hist.faults, !.progress = <<<<0, 0>>>>,
                     !.preStore = store, !.preCache = CacheDoc, !.preConfig = config,
                     !.hit = (cache # NoRef),
                     !.prevCompleted = (hist.scanNo > 0 /\ tasks[hist.scanNo].status = "completed"),
                     !.prevListing = hist.listing, !.prevFolders = hist.postFolders]
           c   == getCachedMetaInfo(cache)
       IN /\ resp' = [status |-> 200, taskId |-> id]
          /\ UNCHANGED <<now, store, config, cache, det>>
          /\ IF c = NoRef THEN
               \* cache miss: db.getGlobalValue is awaited
               /\ tasks' = ts2
               /\ scan' = [s0 EXCEPT !.pc = "readStore"]
               /\ hist' = hi0
               /\ heap' = heap
             ELSE IF heap[c].folders.kind = "missing" THEN
               \* line 141: Object.keys of undefined throws
               LET f == ScanFailed(ts2, s0, hi0, "TypeError", "init")
               IN /\ tasks' = f.ts /\ scan' = f.s /\ hist' = f.hi /\ heap' = heap
             ELSE
               LET hi1 == [hi0 EXCEPT !.preFolders = heap[c].folders]
                   h1  == EnsureFolders(heap, c)
                   st  == StartListing(s0, hi1, h1, c)
               IN /\ tasks' = ts2 /\ scan' = st.s /\ hist' = st.hi /\ heap' = h1

\* Lines 126-159: the store read returns (or throws), the value is parsed,
\* the working document is set up and the listing call issued.
ScanReadStore(throws) ==
  /\ scan.pc = "readStore"
  /\ MayFail(throws)
  /\ UNCHANGED <<now, store, config, cache, det, resp>>
  /\ IF throws \/ store.tag \in {"absent", "garbage"} THEN
       LET ref == Alloc(heap)
           h1  == [heap EXCEPT ![ref] = Doc(FoldersMap(EmptyMap), now)]
           st  == StartListing(scan, Counted(hist, throws), h1, ref)
       IN /\ heap' = h1 /\ scan' = st.s /\ hist' = st.hi /\ tasks' = tasks
     ELSE
       LET ref == Alloc(heap)
           h0  == [heap EXCEPT ![ref] = JSONparse(store)]
           h1  == EnsureFolders(h0, ref)
           st  == StartListing(scan, [hist EXCEPT !.preFolders = h0[ref].folders], h1, ref)
       IN /\ heap' = h1 /\ scan' = st.s /\ hist' = st.hi /\ tasks' = tasks

ListResponses ==
  {[throws |-> TRUE, code |-> 0, content |-> <<>>], [throws |-> FALSE, code |-> 500, content |-> <<>>]}
  \cup {[throws |-> FALSE, code |-> 200, content |-> l] : l \in Listings}

IsDir(item) == item.is_dir

DirNames(content) == LET d == SelectSeq(content, IsDir) IN [x \in 1..Len(d) |-> d[x].name]

\* Lines 162-193: the listing returns.
ScanListed(r) ==
  /\ scan.pc = "list"
  /\ MayFail(r.throws \/ r.code # 200)
  /\ UNCHANGED <<now, store, config, cache, det, resp>>
  /\ IF r.throws \/ r.code # 200 THEN
       LET f == ScanFailed(tasks, scan, Counted(hist, TRUE),
                           IF r.throws THEN "listDirectory threw" ELSE "OpenList list failed",
                           "list")
       IN /\ tasks' = f.ts /\ scan' = f.s /\ hist' = f.hi
          /\ heap' = Collect(heap, Refs(cache, f.s, det))
     ELSE
       LET L   == DirNames(r.content)
           ts1 == updateScanTaskProgress(tasks, scan.taskId, 0, Len(L), Null)
           s1  == [scan EXCEPT !.folders = L]
           hi1 == [hist EXCEPT !.listing = L, !.listed = TRUE,
                               !.progress = @ \o <<<<0, Len(L)>>>>]
           a   == Advance(ts1, heap, s1, hi1, 1)
       IN /\ tasks' = a.ts /\ scan' = a.s /\ hist' = a.hi /\ heap' = a.h

\* Lines 250-265: the catch of the loop body records a sentinel, counts the
\* error and goes on with the next folder, without the delay.
CatchLookupErrorRethrow(hi, name) ==
  LET f == ScanFailed(tasks, scan, hi, "searchTMDB threw", "search")
  IN [ts |-> f.ts, h |-> heap, s |-> f.s, hi |-> f.hi]

CatchLookupError(hi, name) ==
  LET m  == scan.metaInfo
      h1 == [heap EXCEPT ![m].folders.map = PutEntry(@, name, SentinelEntry(name, now))]
      s1 == [scan EXCEPT !.errorCount = @ + 1]
  IN Advance(tasks, h1, s1, hi, scan.i + 1)

\* Lines 198-265: searchTMDB returns or throws.
ScanSearched(o) ==
  /\ scan.pc = "search"
  /\ o \in SearchOutcomes(scan.folders[scan.i])
  /\ MayFail(o.throws)
  /\ UNCHANGED <<now, store, config, cache, det, resp>>
  /\ LET name == scan.folders[scan.i]
         m    == scan.metaInfo
         F    == heap[m].folders.map
         kind == IF o.throws THEN "throw"
                 ELSE IF o.code = 200 /\ o.result # <<>> THEN "match"
                 ELSE "nomatch"
         hi1  == [Counted(hist, o.throws) EXCEPT
                    !.lookups = Append(@, [name |-> name, kind |-> kind])]
     IN IF o.throws THEN
          LET a == CatchLookupError(hi1, name)
          IN /\ tasks' = a.ts /\ scan' = a.s /\ hist' = a.hi
             /\ heap' = Collect(a.h, Refs(cache, a.s, det))
        ELSE IF o.code = 200 /\ o.result # <<>> THEN
          /\ heap' = [heap EXCEPT ![m].folders.map =
                        PutEntry(F, name, ResolvedEntry(o.result[1], name, now))]
          /\ scan' = [scan EXCEPT !.newCount = @ + 1, !.pc = "delay"]
          /\ hist' = hi1
          /\ tasks' = tasks
        ELSE
          /\ heap' = [heap EXCEPT ![m].folders.map = PutEntry(F, name, SentinelEntry(name, now))]
          /\ scan' = [scan EXCEPT !.errorCount = @ + 1, !.pc = "delay"]
          /\ hist' = hi1
          /\ tasks' = tasks

\* The call in flight returns one of the outcomes of its query.
ScanSearchReturns ==
  /\ scan.pc = "search"
  /\ \E o \in SearchOutcomes(scan.folders[scan.i]) : ScanSearched(o)

\* Line 249: the inter-call delay elapses; the loop goes on.
ScanDelayed ==
  /\ scan.pc = "delay"
  /\ UNCHANGED <<now, store, config, cache, det, resp>>
  /\ LET a == Advance(tasks, heap, scan, [hist EXCEPT !.delays = @ + 1], scan.i + 1)
     IN /\ tasks' = a.ts /\ scan' = a.s /\ hist' = a.hi /\ heap' = a.h

\* Line 277: db.setGlobalValue returns or throws; then the verifying read is issued.
ScanSaved(throws) ==
  /\ scan.pc = "save"
  /\ MayFail(throws)
  /\ UNCHANGED <<now, config, cache, det, resp>>
  /\ IF throws THEN
       LET f == ScanFailed(tasks, scan, Counted(hist, TRUE), "setGlobalValue threw", "save")
       IN /\ tasks' = f.ts /\ scan' = f.s /\ hist' = f.hi /\ store' = store
          /\ heap' = Collect(heap, Refs(cache, f.s, det))
     ELSE
       /\ store' = scan.content
       /\ scan' = [scan EXCEPT !.pc = "verify"]
       /\ UNCHANGED <<tasks, hist, heap>>

\* Lines 281-302: the verifying read returns or throws (caught); the cache
\* entry is invalidated and set to the working document; getConfig is awaited.
ScanVerified(throws) ==
  /\ scan.pc = "verify"
  /\ MayFail(throws)
  /\ hist' = Counted(hist, throws)
  /\ cache' = setCachedMetaInfo(invalidateMetaInfoCache(cache), scan.metaInfo)
  /\ scan' = [scan EXCEPT !.pc = "getConfig"]
  /\ heap' = Collect(heap, Refs(cache', scan', det))
  /\ UNCHANGED <<now, store, config, tasks, det, resp>>

\* Lines 302-305: getConfig returns or throws; saveAdminConfig is issued.
ScanGotConfig(throws) ==
  /\ scan.pc = "getConfig"
  /\ MayFail(throws)
  /\ UNCHANGED <<now, store, config, cache, det, resp>>
  /\ IF throws THEN
       LET f == ScanFailed(tasks, scan, Counted(hist, TRUE), "getConfig threw", "getConfig")
       IN /\ tasks' = f.ts /\ scan' = f.s /\ hist' = f.hi
          /\ heap' = Collect(heap, Refs(cache, f.s, det))
     ELSE
       /\ scan' = [scan EXCEPT !.pc = "saveConfig",
                     !.cfg = [LastRefreshTime |-> now,
                              ResourceCount |-> Cardinality(DOMAIN heap[scan.metaInfo].folders.map)]]
       /\ UNCHANGED <<tasks, hist, heap>>

ScanResult(s, h) ==
  [total |-> Len(s.folders), new |-> s.newCount,
   existing |-> Cardinality(DOMAIN h[s.metaInfo].folders.map) - s.newCount,
   errors |-> s.errorCount]

\* Lines 305-313: saveAdminConfig returns or throws; the task is completed.
ScanConfigSaved(throws) ==
  /\ scan.pc = "saveConfig"
  /\ MayFail(throws)
  /\ UNCHANGED <<now, store, cache, det, resp>>
  /\ IF throws THEN
       LET f == ScanFailed(tasks, scan, Counted(hist, TRUE), "saveAdminConfig threw", "saveConfig")
       IN /\ tasks' = f.ts /\ scan' = f.s /\ hist' = f.hi /\ config' = config
          /\ heap' = Collect(heap, Refs(cache, f.s, det))
     ELSE
       /\ config' = scan.cfg
       /\ tasks' = completeScanTask(tasks, scan.taskId, ScanResult(scan, heap), now)
       /\ scan' = IdleScan
       /\ hist' = hist
       /\ heap' = Collect(heap, Refs(cache, IdleScan, det))

\* Lines 75-78: the rejection handler of the trigger fails the task again.
PostCatch ==
  /\ scan.pc = "rejected"
  /\ tasks' = failScanTask(tasks, scan.taskId, scan.error, now)
  /\ scan' = IdleScan
  /\ hist' = [hist EXCEPT !.caughtAt = now]
  /\ UNCHANGED <<now, store, config, cache, heap, det, resp>>

\* Time passes: between scans, and between the catch of performScan and the
\* rejection handler of the trigger.
Tick ==
  /\ scan.pc = "rejected" \/ (scan.pc = "idle" /\ hist.scanNo > 0)
  /\ now < MaxClock
  /\ now' = now + 1
  /\ UNCHANGED <<store, config, cache, heap, tasks, scan, det, resp, hist>>

ScanNext ==
  \/ \E auth \in BOOLEAN, cfg \in {"ok", "throws", "noOpenList", "noKey"} : POST(auth, cfg)
  \/ \E throws \in BOOLEAN : ScanReadStore(throws)
  \/ \E r \in ListResponses : ScanListed(r)
  \/ ScanSearchReturns
  \/ ScanDelayed
  \/ \E throws \in BOOLEAN : ScanSaved(throws)
  \/ \E throws \in BOOLEAN : ScanVerified(throws)
  \/ \E throws \in BOOLEAN : ScanGotConfig(throws)
  \/ \E throws \in BOOLEAN : ScanConfigSaved(throws)
  \/ PostCatch
  \/ Tick

SpecScan == Init /\ [][ScanNext]_vars

-----------------------------------------------------------------------------
(* Detail route: GET /api/detail?source=openlist&id=<folder> *)

ScanInProgress == scan.pc \notin {"idle", "rejected"}

\* The document the request obtained, noted with the scan in progress then.
Observed(d, folders) ==
  IF ScanInProgress
  THEN [d EXCEPT !.obsScan = hist.scanNo, !.obsFolders = folders]
  ELSE d

\* Lines 10-44: checks, then the cache lookup; on a miss the store read is awaited.
GET_Start(id, ok) ==
  /\ det.pc = "idle"
  /\ det.reads < MaxReads
  /\ UNCHANGED <<now, store, config, cache, heap, tasks, scan, resp, hist>>
  /\ IF ~ok THEN
       det' = [det EXCEPT !.response = [status |-> 500]]
     ELSE
       LET d0 == [IdleDet EXCEPT !.id = id, !.reads = det.reads + 1]
           c  == getCachedMetaInfo(cache)
       IN IF c # NoRef
          THEN det' = Observed([d0 EXCEPT !.pc = "fetch", !.metaInfo = c], heap[c].folders)
          ELSE det' = [d0 EXCEPT !.pc = "dbWait"]

\* The store serves the read of line 45 (or fails it).
DbServeDetail(throws) ==
  /\ det.pc = "dbWait"
  /\ MayFail(throws)
  /\ hist' = Counted(hist, throws)
  /\ det' = LET d1 == [det EXCEPT !.pc = "dbGot", !.threw = throws,
                                       !.json = IF throws THEN Absent ELSE store]
            IN IF ~throws /\ store.tag = "doctext"
               THEN Observed(d1, JSONparse(store).folders) ELSE d1
  /\ UNCHANGED <<now, store, config, cache, heap, tasks, scan, resp>>

\* Lines 45-56: the read returns; a value is parsed and put in the cache.
GET_GotStore ==
  /\ det.pc = "dbGot"
  /\ UNCHANGED <<now, store, config, tasks, scan, resp>>
  /\ IF det.threw \/ det.json.tag \in {"absent", "garbage"} THEN
       /\ det' = [det EXCEPT !.pc = "fetch", !.json = Absent, !.threw = FALSE]
       /\ UNCHANGED <<cache, heap, hist>>
     ELSE
       LET ref == Alloc(heap)
           h1  == [heap EXCEPT ![ref] = JSONparse(det.json)]
           d1  == [det EXCEPT !.pc = "fetch", !.json = Absent, !.metaInfo = ref]
       IN /\ cache' = setCachedMetaInfo(cache, ref)
          /\ hist' = [hist EXCEPT !.detSetCache = TRUE]
          /\ det' = d1
          /\ heap' = Collect(h1, Refs(cache', scan, d1))

EpisodeLists == {<<"e1.mkv", "e2.mkv">>}

DetailResponses ==
  {[ok |-> FALSE, success |-> FALSE, episodes |-> <<>>],
   [ok |-> TRUE, success |-> FALSE, episodes |-> <<>>]}
  \cup {[ok |-> TRUE, success |-> TRUE, episodes |-> e] : e \in EpisodeLists}

\* release_date.split('-')[0]
Year(date) ==
  IF date = "2010-07-16" THEN "2010" ELSE IF date = "2011-04-17" THEN "2011" ELSE date

\* metaInfo?.folders?.[id]
FolderMeta(h, ref, id) ==
  IF ref # NoRef /\ h[ref].folders.kind = "map" /\ id \in DOMAIN h[ref].folders.map
  THEN <<h[ref].folders.map[id]>>
  ELSE <<>>

\* Lines 75-93.
DetailResultNeedsMeta(meta, folder, episodes) ==
  IF meta = <<>> THEN [status |-> 500]
  ELSE [status |-> 200, id |-> folder, title |-> meta[1].title, poster |-> <<>>,
        year |-> "", desc |-> "",
        episodes |-> [x \in 1..Len(episodes) |-> <<"play", folder, episodes[x]>>]]

DetailResult(meta, folder, episodes) ==
  [status |-> 200,
   id |-> folder,
   title |-> IF meta # <<>> THEN OrElse(meta[1].title, folder) ELSE folder,
   poster |-> IF meta # <<>> /\ meta[1].poster_path \notin {Null, ""}
              THEN <<"tmdb-image", meta[1].poster_path>> ELSE <<>>,
   year |-> IF meta # <<>> /\ meta[1].release_date # "" THEN Year(meta[1].release_date) ELSE "",
   desc |-> IF meta # <<>> THEN OrElse(meta[1].overview, "") ELSE "",
   episodes |-> [x \in 1..Len(episodes) |-> <<"play", folder, episodes[x]>>]]

\* Lines 56-103: the live listing of the folder returns; the record is assembled.
GET_Fetched(r) ==
  /\ det.pc = "fetch"
  /\ UNCHANGED <<now, store, config, cache, tasks, scan, resp, hist>>
  /\ LET out == IF ~r.ok \/ ~r.success
                THEN [status |-> 500]
                ELSE DetailResult(FolderMeta(heap, det.metaInfo, det.id), det.id, r.episodes)
         d1  == [det EXCEPT !.pc = "idle", !.metaInfo = NoRef, !.response = out]
     IN /\ det' = d1
        /\ heap' = Collect(heap, Refs(cache, scan, d1))

DetailNext ==
  \/ \E id \in DetailIds, ok \in BOOLEAN : GET_Start(id, ok)
  \/ \E throws \in BOOLEAN : DbServeDetail(throws)
  \/ GET_GotStore
  \/ \E r \in DetailResponses : GET_Fetched(r)

Next == ScanNext \/ DetailNext

Spec == Init /\ [][Next]_vars

-----------------------------------------------------------------------------
(* Derived state used by the properties *)

Range(q) == {q[x] : x \in DOMAIN q}

\* The task of the scan started last.
CurTask == IF hist.scanNo > 0 THEN tasks[hist.scanNo] ELSE NoTaskRec

Completed == CurTask.status = "completed"
Failed == CurTask.status = "failed"

\* The document a cold reader gets from the store.
StoredFolders == IF store.tag = "doctext" THEN JSONparse(store).folders ELSE FoldersMissing

CachedFolders == IF cache # NoRef THEN heap[cache].folders ELSE FoldersMissing

InceptionDir == "Inception (2010)"
JunkDir == "Unknown Junk Folder"

FailedLookups == {k \in DOMAIN hist.lookups : hist.lookups[k].kind # "match"}

-----------------------------------------------------------------------------
(* C1  End-to-end scenario: empty store, cold cache, listing                *)
(* ["Inception (2010)", "Unknown Junk Folder"], the first matched (27205),  *)
(* the second without a match.  The scan completes; the stored document     *)
(* holds the resolved entry and the sentinel; the task result is            *)
(* {total: 2, new: 1, existing: 0, errors: 1}.                              *)

C1_Scenario ==
  /\ hist.preStore = Absent
  /\ ~hist.hit
  /\ hist.listing = <<InceptionDir, JunkDir>>
  /\ hist.lookups = <<[name |-> InceptionDir, kind |-> "match"],
                      [name |-> JunkDir, kind |-> "nomatch"]>>
  /\ Completed

C1_Document ==
  LET F == StoredFolders.map
  IN /\ DOMAIN F = {InceptionDir, JunkDir}
     /\ F[InceptionDir].tmdb_id = 27205 /\ ~F[InceptionDir].failed
     /\ F[JunkDir].tmdb_id = 0 /\ F[JunkDir].title = JunkDir /\ F[JunkDir].failed

C1_EndToEnd ==
  C1_Scenario =>
    /\ C1_Document
    /\ CurTask.result = <<[total |-> 2, new |-> 1, existing |-> 0, errors |-> 1]>>

-----------------------------------------------------------------------------
(* C2  Idempotent incremental scan: a scan that follows a completed scan    *)
(* and gets the same listing issues no catalog lookup, leaves the folder    *)
(* entries of the document as the first scan left them, and reports new = 0.*)

C2_IdempotentRescan ==
  (hist.prevCompleted /\ hist.listed /\ hist.listing = hist.prevListing) =>
    /\ hist.lookups = <<>>
    /\ hist.merged => hist.postFolders = hist.prevFolders
    /\ Completed => CurTask.result[1].new = 0

-----------------------------------------------------------------------------
(* C3  Per-folder isolation: a failing lookup (no match, non-200 code or a  *)
(* thrown error) never ends the loop; with no prior entries and exactly one *)
(* failing lookup among N folders the merged document has an entry for each *)
(* of the N folders, failed exactly for the failing one; the task is not    *)
(* failed by the lookup, and when the scan's remaining steps succeed it is  *)
(* completed with total = N and errors = 1.                                 *)

C3_PerFolderIsolation ==
  LET N == Len(hist.listing)
  IN /\ (hist.listed /\ ~hist.merged) => scan.pc \in {"search", "delay"}
     /\ (hist.merged /\ hist.startFolders = EmptyMap /\ Cardinality(FailedLookups) = 1) =>
          /\ Len(hist.lookups) = N
          /\ DOMAIN hist.postFolders = Range(hist.listing)
          /\ \A k \in DOMAIN hist.lookups :
               /\ hist.lookups[k].name = hist.listing[k]
               /\ hist.postFolders[hist.listing[k]].failed = (k \in FailedLookups)
          /\ Failed => hist.failedAt \in {"save", "getConfig", "saveConfig"}
          /\ Completed =>
               /\ CurTask.result[1].total = N
               /\ CurTask.result[1].errors = 1
               /\ StoredFolders.map = hist.postFolders

C3_Witness ==
  /\ Completed
  /\ Len(hist.listing) = 2
  /\ hist.startFolders = EmptyMap
  /\ Cardinality(FailedLookups) = 1
  /\ \E k \in DOMAIN hist.lookups : hist.lookups[k].kind = "throw"

-----------------------------------------------------------------------------
(* C4  Task terminal exclusivity: no registry call changes the record of a  *)
(* task that is completed or failed (status, result, error message, finish  *)
(* time), the second fail of the trigger's rejection handler included.      *)

C4_TerminalExclusive ==
  [][\A id \in DOMAIN tasks :
       (Terminal(tasks[id]) /\ tasks'[id] # NoTaskRec) => tasks'[id] = tasks[id]]_vars

\* The rejection handler has called fail on the failed task, later than the catch did.
C4_Witness ==
  /\ Failed
  /\ hist.caughtAt > CurTask.finishedAt

-----------------------------------------------------------------------------
(* C5  Cache/store consistency: in the state reached when a scan completes, *)
(* the cache holds a document for the root and it equals the parsed store   *)
(* value.                                                                   *)

C5_CacheStoreConsistent ==
  [][(scan.pc = "saveConfig" /\ scan'.pc = "idle") =>
       (cache' # NoRef /\ heap'[cache'] = JSONparse(store'))]_vars

-----------------------------------------------------------------------------
(* C6  Progress monotonicity: the processed values passed to updateProgress *)
(* never decrease and never exceed the number of listed folders; the        *)
(* registry shows the last value reported; when the scan completes the last *)
(* processed value equals the reported total (zero folders included).       *)

C6_ProgressMonotone ==
  LET P == hist.progress
  IN /\ \A a \in 1..(Len(P) - 1) : P[a][1] <= P[a + 1][1]
     /\ \A a \in DOMAIN P : P[a][1] <= Len(hist.listing)
     /\ Live(CurTask) => (CurTask.processed = P[Len(P)][1] /\ CurTask.total = P[Len(P)][2])
     /\ Completed =>
          /\ P[Len(P)][1] = P[Len(P)][2]
          /\ P[Len(P)][2] = Len(hist.listing)
          /\ CurTask.processed = CurTask.result[1].total

C6_Witness ==
  /\ Completed
  /\ Len(hist.listing) = 2
  /\ Len(hist.progress) = 4

-----------------------------------------------------------------------------
(* C7  No torn read: a document a detail request obtains (cache or store)   *)
(* while a scan is in progress equals the document that scan started from   *)
(* (or the cached or stored one of that moment) or the document it merged,  *)
(* in its folder entries.                                                   *)

\* The documents there were to read when the scan started: the one the scan
\* started from, the cached one and the stored one.
PreScanFolders ==
  {hist.preFolders}
    \cup (IF hist.preCache.tag = "doc" THEN {hist.preCache.folders} ELSE {})
    \cup (IF hist.preStore.tag = "doctext" THEN {JSONparse(hist.preStore).folders} ELSE {})

C7_NoTornRead ==
  (hist.scanNo > 0 /\ det.obsScan = hist.scanNo /\ hist.merged) =>
    det.obsFolders \in PreScanFolders \cup {FoldersMap(hist.postFolders)}

-----------------------------------------------------------------------------
(* C8  Listing failure is fatal and writes nothing: the task is failed with *)
(* a message, no lookup was made, and store, persisted configuration and    *)
(* the cached document (unless a detail request filled the cache meanwhile) *)
(* are as they were when the scan started.                                  *)

C8_ListingFailureWritesNothing ==
  hist.failedAt = "list" =>
    /\ Failed /\ CurTask.error # ""
    /\ hist.lookups = <<>>
    /\ store = hist.preStore
    /\ config = hist.preConfig
    /\ ~hist.detSetCache => CacheDoc = hist.preCache

-----------------------------------------------------------------------------
(* C9  Store failure at the final save: the task is failed, the store keeps *)
(* its pre-scan value, and no folder entry created during that run is       *)
(* visible through the cache or the store.                                  *)

C9_StoreFailureLosesMerge ==
  hist.failedAt = "save" =>
    /\ Failed
    /\ store = hist.preStore
    /\ \A k \in DOMAIN hist.lookups :
         /\ hist.lookups[k].name \notin DOMAIN CachedFolders.map
         /\ hist.lookups[k].name \notin DOMAIN StoredFolders.map

-----------------------------------------------------------------------------
(* C10  Monotonic additivity: every entry of the document the scan started  *)
(* from stays in the working document, unchanged, throughout the scan, and  *)
(* is in the persisted document, unchanged, once the scan has saved it.     *)

C10_MonotonicAdditive ==
  /\ scan.pc \in {"list", "search", "delay", "save", "verify", "getConfig", "saveConfig"} =>
       \A n \in DOMAIN hist.startFolders :
         /\ n \in DOMAIN heap[scan.metaInfo].folders.map
         /\ heap[scan.metaInfo].folders.map[n] = hist.startFolders[n]
  /\ (scan.pc \in {"verify", "getConfig", "saveConfig"} \/ Completed) =>
       \A n \in DOMAIN hist.startFolders :
         /\ n \in DOMAIN StoredFolders.map
         /\ StoredFolders.map[n] = hist.startFolders[n]

C10_Witness ==
  /\ Completed
  /\ InceptionDir \in DOMAIN hist.startFolders
  /\ hist.listing = <<JunkDir, InceptionDir>>
  /\ DOMAIN StoredFolders.map = {InceptionDir, JunkDir}

-----------------------------------------------------------------------------
(* C11  Configuration error allocates no task: a trigger call without an    *)
(* authenticated identity, or with the listing configuration or the catalog *)
(* API key absent, answers 401 or 400 and leaves registry, cache, store,    *)
(* documents and scan state as they were (no cleanup, no task, no scan).    *)

C11_ConfigErrorAllocatesNothing ==
  [][\A auth \in BOOLEAN, cfg \in {"ok", "noOpenList", "noKey"} :
       ((~auth \/ cfg # "ok") /\ POST(auth, cfg)) =>
         /\ resp'.status \in {400, 401} /\ resp'.taskId = NoTask
         /\ UNCHANGED <<tasks, cache, store, heap, scan, config>>]_vars

\* A rejected call, with a task in the registry that a cleanup would purge.
C11_Witness ==
  /\ resp.status = 400
  /\ scan.pc = "idle"
  /\ cache # NoRef
  /\ \E id \in DOMAIN tasks : Terminal(tasks[id]) /\ tasks[id].finishedAt < now - Retention

-----------------------------------------------------------------------------
(* C12  Single writer: no step of a detail request changes the cache entry  *)
(* for the root (the reference or the document it holds) or the stored      *)
(* document.                                                                *)

C12_SingleWriter ==
  [][DetailNext => (cache' = cache /\ CacheDoc' = CacheDoc /\ store' = store)]_vars

-----------------------------------------------------------------------------
(* C13  Detail assembly tolerates missing metadata: a failing or empty      *)
(* store read never ends the request, and when the document obtained has no *)
(* entry for the folder and the live listing succeeds, the response is a    *)
(* successful record: title = folder name, poster, year and description     *)
(* empty, one play reference per listed episode.                            *)

C13_ToleratesMissingMetadata ==
  [][/\ det.pc \in {"dbWait", "dbGot"} => det'.pc \in {"dbWait", "dbGot", "fetch"}
     /\ \A r \in DetailResponses :
          (/\ GET_Fetched(r)
           /\ r.ok /\ r.success
           /\ FolderMeta(heap, det.metaInfo, det.id) = <<>>) =>
            /\ det'.response.status = 200
            /\ det'.response.title = det.id
            /\ det'.response.poster = <<>>
            /\ det'.response.year = ""
            /\ det'.response.desc = ""
            /\ Len(det'.response.episodes) = Len(r.episodes)
            /\ \A x \in DOMAIN r.episodes :
                 det'.response.episodes[x] = <<"play", det.id, r.episodes[x]>>]_vars

\* A successful record without metadata, the stored value being unparseable.
C13_Witness ==
  /\ store = Garbage
  /\ det.pc = "idle"
  /\ det.reads > 0
  /\ det.response.status = 200
  /\ det.response.title = "Inception (2010)"
  /\ det.response.desc = ""
  /\ Len(det.response.episodes) = 2

-----------------------------------------------------------------------------
(* C14  Rate limiting: the inter-call delay follows every catalog lookup of *)
(* a scan, whatever its outcome, so whenever a lookup call is in flight     *)
(* every earlier lookup of the scan has been followed by a delay.           *)

C14_DelayAfterEveryLookup ==
  scan.pc = "search" => hist.delays = Len(hist.lookups)

-----------------------------------------------------------------------------
(* C15  No retry of attempted folders: a scan looks a listed folder up if   *)
(* and only if the document has no entry for it when it is processed; a     *)
(* listed folder recorded as failed by the preceding completed scan is not  *)
(* looked up again, keeps its entry unchanged, and the counters new and     *)
(* errors count the folders looked up in this scan only.                    *)

LookupNames == {hist.lookups[k].name : k \in DOMAIN hist.lookups}

C15_NoRetry ==
  /\ \A k \in DOMAIN hist.lookups :
       /\ hist.lookups[k].name \notin DOMAIN hist.startFolders
       /\ \A j \in 1..(k - 1) : hist.lookups[j].name # hist.lookups[k].name
  /\ hist.merged =>
       \A n \in Range(hist.listing) : n \notin DOMAIN hist.startFolders => n \in LookupNames
  /\ hist.prevCompleted =>
       \A n \in DOMAIN hist.prevFolders :
         (hist.prevFolders[n].failed /\ n \in Range(hist.listing)) =>
           /\ n \notin LookupNames
           /\ hist.merged => (n \in DOMAIN hist.postFolders
                              /\ hist.postFolders[n] = hist.prevFolders[n])
  /\ Completed =>
       /\ CurTask.result[1].new = Cardinality(DOMAIN hist.lookups \ FailedLookups)
       /\ CurTask.result[1].errors = Cardinality(FailedLookups)

-----------------------------------------------------------------------------
(* C16  Strict progress ordering.  As stated: every updateProgress call on  *)
(* a task reports a processed value strictly greater than the previous      *)
(* call's.                                                                  *)

C16_StrictProgress ==
  \A a \in 1..(Len(hist.progress) - 1) : hist.progress[a][1] < hist.progress[a + 1][1]

(* C16, amended: the first call (at scan start) and the second (after the   *)
(* listing) both report processed = 0; from then on every call reports one  *)
(* more than the call before it.                                            *)

C16_ProgressOrdering ==
  LET P == hist.progress
  IN /\ Len(P) >= 1 => P[1] = <<0, 0>>
     /\ Len(P) >= 2 => P[2][1] = 0
     /\ \A a \in 2..(Len(P) - 1) : P[a + 1][1] = P[a][1] + 1

\* A lookup in flight after the calls 0, 0, 1.
C16_Witness ==
  /\ scan.pc = "search"
  /\ Len(hist.progress) >= 3
  /\ hist.progress[2][1] = 0
  /\ hist.progress[3][1] = 1

-----------------------------------------------------------------------------
(* C17  Malformed stored document is non-fatal: a scan that starts with a   *)
(* cold cache and gets no usable folders mapping from the store (the read   *)
(* throws, the value is empty or unparseable, or folders is missing or not  *)
(* an object) works on an empty mapping, is not failed on that account,     *)
(* looks up every listed folder and, when completed, has stored a document  *)
(* with an entry for each listed folder.                                    *)

ColdMalformedStart ==
  /\ hist.scanNo > 0
  /\ ~hist.hit
  /\ scan.pc # "readStore"
  /\ hist.preFolders.kind # "map"

C17_MalformedStoreNonFatal ==
  ColdMalformedStart =>
    /\ hist.startFolders = EmptyMap
    /\ ScanInProgress => heap[scan.metaInfo].folders.kind = "map"
    /\ Failed => hist.failedAt \in {"list", "save", "getConfig", "saveConfig"}
    /\ hist.merged => LookupNames = Range(hist.listing)
    /\ Completed =>
         /\ StoredFolders.kind = "map"
         /\ DOMAIN StoredFolders.map = Range(hist.listing)

\* Completed, two folders, from a stored document whose folders is not an object.
C17_Witness ==
  /\ Completed
  /\ ~hist.hit
  /\ hist.preStore.tag = "doctext"
  /\ hist.preStore.fkind = "nonobj"
  /\ Len(hist.lookups) = 2
  /\ Cardinality(DOMAIN StoredFolders.map) = 2

-----------------------------------------------------------------------------
(* C18  Cache never stays staler than the store: with one scan and any      *)
(* detail requests interleaved, once the scan has completed and no detail   *)
(* request is under way, the cache entry for the root, if present, equals   *)
(* the stored document.                                                     *)

C18_CacheNotStale ==
  (hist.scanNo = 1 /\ Completed /\ scan.pc = "idle" /\ det.pc = "idle" /\ cache # NoRef) =>
    (store.tag = "doctext" /\ heap[cache] = JSONparse(store))

-----------------------------------------------------------------------------
(* Every awaited call of a scan eventually returns or throws, and the       *)
(* rejection handler of the trigger eventually runs.                        *)

ScanSteps ==
  \/ \E throws \in BOOLEAN : ScanReadStore(throws)
  \/ \E r \in ListResponses : ScanListed(r)
  \/ ScanSearchReturns
  \/ ScanDelayed
  \/ \E throws \in BOOLEAN : ScanSaved(throws)
  \/ \E throws \in BOOLEAN : ScanVerified(throws)
  \/ \E throws \in BOOLEAN : ScanGotConfig(throws)
  \/ \E throws \in BOOLEAN : ScanConfigSaved(throws)
  \/ PostCatch

LiveScan == SpecScan /\ WF_vars(ScanSteps)

(* C19  Every task terminates: under LiveScan every task that is pending or *)
(* running eventually is completed or failed, whatever call fails, the      *)
(* configuration save after the document was persisted included.            *)

C19_EveryTaskTerminates ==
  \A id \in 1..MaxScans : Live(tasks[id]) ~> Terminal(tasks[id])

\* Failed by the configuration save, the merged document being in the store.
C19_Witness ==
  /\ Failed
  /\ hist.failedAt = "saveConfig"
  /\ Len(hist.lookups) > 0
  /\ StoredFolders.map = hist.postFolders

-----------------------------------------------------------------------------
(* C20  Completed implies persisted, failed implies not persisted: when the *)
(* task of a scan is completed, the stored document has an entry for every  *)
(* directory of the scan's listing and the cache holds that document; when  *)
(* it is failed, the stored value and the cache entry are what they were    *)
(* when the scan started.                                                   *)

C20_CompletedIffPersisted ==
  /\ Completed =>
       /\ StoredFolders.kind = "map"
       /\ Range(hist.listing) \subseteq DOMAIN StoredFolders.map
       /\ cache # NoRef /\ heap[cache] = JSONparse(store)
  /\ Failed =>
       /\ store = hist.preStore
       /\ CacheDoc = hist.preCache

====
